---- MODULE Spec2Model ----
(***************************************************************************)
(* The rolling-stocktake dashboard widget (frontend/src/Dashboard.tsx).    *)
(*                                                                         *)
(* The widget owns no state of its own: what it renders is a function of   *)
(* the query it registers with useQuery (key 'next-item') on a QueryClient *)
(* built with no options, and of the count-stock form the host hands it.   *)
(* The model therefore holds the state of that one query (status,          *)
(* fetchStatus, data, failure count), the GETs that are on the network,    *)
(* the open/closed state of the form, and the calls made to the host's     *)
(* navigate.  The query's transitions are those the data-fetching library  *)
(* performs for the options the source passes (and for the defaults of the *)
(* options it does not pass).                                              *)
(***************************************************************************)
EXTENDS Integers, Sequences, FiniteSets

(* ---------------------------------------------------------------- bounds *)

\* Longest items array a response carries.
MaxItems == 2
\* Largest pk of a stock item; pks range over 0 .. MaxPk.
MaxPk == 1
\* Fetches of the query over a run: the one started on mount plus those
\* started by the refresh icon and by count-action completions.
MaxFetches == 3

(* ------------------------------------------------------------- constants *)

\* A QueryClient built with no defaultOptions, and a query without a retry
\* option: a failed query function is retried this many times.
DefaultRetry == 3

\* No View Item has been clicked yet.
NoClick == -1

(* ------------------------------------------------------------------ data *)

\* An item is identified by its pk.  Pk 0 stands for every pk that is not
\* truthy: a missing pk, null and 0 are alike to if (item?.pk).
Pks == 0 .. MaxPk

RECURSIVE SeqsUpTo(_)
\* The arrays of at most n items; the items of one response are distinct
\* stock items.
SeqsUpTo(n) ==
  IF n = 0 THEN {<<>>}
  ELSE LET shorter == SeqsUpTo(n - 1)
       IN  shorter \cup
           {Append(s, p) : s \in {t \in shorter : Len(t) = n - 1}, p \in Pks}

ItemArrays ==
  {s \in SeqsUpTo(MaxItems) :
     \A i, j \in 1 .. Len(s) : i # j => s[i] # s[j]}

\* What the query function can return (response.data): undefined, null, an
\* object without an items field, or an object with an items array.
Undefined == [k |-> "undefined", items |-> <<>>]
NullBody  == [k |-> "null", items |-> <<>>]
NoItems   == [k |-> "noitems", items |-> <<>>]
WithItems(s) == [k |-> "items", items |-> s]

\* The bodies a response that carries a body can have.
Bodies == {NullBody, NoItems} \cup {WithItems(s) : s \in ItemArrays}

\* data?.items ?? []
ItemsOf(d) == IF d.k = "items" THEN d.items ELSE <<>>

\* if (item?.pk)
Truthy(pk) == pk # 0

\* getDetailUrl(ModelType.stockitem, pk)
DetailUrl(pk) == <<"stockitem", pk>>

(* ----------------------------------------------------------------- state *)

VARIABLES
  hasApi,        \* context.api is present
  status,        \* the query's status: "pending", "error", "success"
  fetchStatus,   \* the query's fetchStatus: "fetching", "idle"
  data,          \* the query's data (kept across a failed refetch)
  failureCount,  \* failed runs of the query function in the current fetch
  inflight,      \* runs of the query function that have not settled yet:
                 \*   fetch   which fetch of the query started the run
                 \*   awaited the query still waits for it (not superseded)
                 \*   get     it put a GET on the network
  fetchNo,       \* fetches started so far
  formOpen,      \* the count-stock form is open
  clicked,       \* the pk of the row whose View Item the last step clicked
  navigated,     \* the calls the last step made to the host's navigate
  arrived,       \* the body of the successful response the last step received
  resultOf,      \* the fetch whose outcome the query last took (0: none)
  lastOutcome,   \* how that fetch ended: "none", "success", "failure"
  lastAccepted,  \* the body of the last response the query took as data
  invalidatedAt  \* the fetch started by the last count-action completion

queryVars == <<status, fetchStatus, data, failureCount, inflight, fetchNo>>
historyVars == <<resultOf, lastOutcome, lastAccepted, invalidatedAt>>
vars == <<hasApi, status, fetchStatus, data, failureCount, inflight, fetchNo,
          formOpen, clicked, navigated, arrived, resultOf, lastOutcome,
          lastAccepted, invalidatedAt>>

(* ------------------------------------------------------------- rendering *)

\* The flags useQuery derives from the query's state.
IsFetchingOf(fs) == fs = "fetching"
IsLoadingOf(st, fs) == st = "pending" /\ fs = "fetching"
IsErrorOf(st) == st = "error"
IsSuccessOf(st) == st = "success"

isFetching == IsFetchingOf(fetchStatus)
isLoading == IsLoadingOf(status, fetchStatus)
isError == IsErrorOf(status)
isSuccess == IsSuccessOf(status)

\* const stockItems = useMemo(() => itemQuery.data?.items ?? [])
stockItems == ItemsOf(data)

\* {(itemQuery.isLoading || itemQuery.isFetching) && <Loader/>}
ShowLoaderIsLoadingOnly == isLoading
ShowLoader == isLoading \/ isFetching

\* {!isLoading && !isFetching && isError && <Alert color='red'/>}
ShowErrorAlertWhileFetching == ~isLoading /\ isError
ShowErrorAlert == ~isLoading /\ ~isFetching /\ isError

\* {!isLoading && isSuccess && <RenderStockItems/>}: RenderStockItems is
\* mounted.
MountedOfCachedData(st, fs, d) == ~IsLoadingOf(st, fs) /\ d.k # "undefined"
MountedOf(st, fs, d) == ~IsLoadingOf(st, fs) /\ IsSuccessOf(st)
ShowItems == MountedOf(status, fetchStatus, data)

\* RenderStockItems: if (!items || items.length === 0) return <Alert green/>
ShowEmptyAlert == ShowItems /\ Len(stockItems) = 0

\* RenderStockItems: otherwise the table and the Count Stock button.
ShowTableNoEarlyReturn == ShowItems
ShowTable == ShowItems /\ Len(stockItems) # 0

\* items.map((item) => <RenderStockItem key={item.pk} item={item}/>)
RowsReversed == [i \in 1 .. Len(stockItems) |-> stockItems[Len(stockItems) + 1 - i]]
Rows == [i \in 1 .. Len(stockItems) |-> stockItems[i]]

\* countStock({items: items || [], ...}): the items the form is built with.
FormItems == stockItems

\* {countStockForm?.modal} is rendered only in the table branch.
ModalVisible == formOpen /\ ShowTable

(* --------------------------------------------------------------- queries *)

AwaitedRuns == {r \in inflight : r.awaited}
\* The GETs that are on the network.
Gets == {r \in inflight : r.get}
AwaitedGets == {r \in inflight : r.awaited /\ r.get}

\* The query function: context.api?.get(NEXT_ITEM_URL) puts a GET on the
\* network when context.api is present; without it response is undefined
\* and reading response.data throws.
NewRun(n) == [fetch |-> n, awaited |-> TRUE, get |-> hasApi]

\* Query.cancel({silent: true}): the run's result is no longer waited for.
\* The query function takes no signal, so its GET stays on the network.
SupersedeKeepsAwaiting(runs) == runs
Supersede(runs) == {[r EXCEPT !.awaited = FALSE] : r \in runs}

\* The outcomes of a run of the query function.
Outcomes(r) == IF r.get THEN {"ok", "reject", "nodata"} ELSE {"throw"}

\* Query.fetch with cancelRefetch (refetch() and invalidateQueries() both
\* default to it): a fetch in progress is returned as it is when the query
\* has no data yet, and is cancelled and replaced when it has.
StartFetch ==
  IF fetchStatus # "idle" /\ data.k = "undefined"
  THEN UNCHANGED queryVars
  ELSE /\ inflight' = Supersede(inflight) \cup {NewRun(fetchNo + 1)}
       /\ fetchNo' = fetchNo + 1
       /\ fetchStatus' = "fetching"
       /\ failureCount' = 0
       /\ status' = IF data.k = "undefined" THEN "pending" ELSE status
       /\ data' = data

\* The form's open state lives in RenderStockItems: it is lost when that
\* component unmounts.
FormAfter(st, fs, d) == formOpen /\ MountedOf(st, fs, d)

(* ------------------------------------------------------------------ Init *)

\* The widget is mounted: useQuery (enabled: true) has started the first
\* fetch.
Init ==
  /\ hasApi \in BOOLEAN
  /\ status = "pending"
  /\ fetchStatus = "fetching"
  /\ data = Undefined
  /\ failureCount = 0
  /\ inflight = {[fetch |-> 1, awaited |-> TRUE, get |-> hasApi]}
  /\ fetchNo = 1
  /\ formOpen = FALSE
  /\ clicked = NoClick
  /\ navigated = <<>>
  /\ resultOf = 0
  /\ lastOutcome = "none"
  /\ lastAccepted = Undefined
  /\ arrived = Undefined
  /\ invalidatedAt = 0

(* --------------------------------------------------------------- actions *)

\* The step is no View Item click and receives no successful response.
NoClickNoResponse ==
  /\ clicked' = NoClick
  /\ navigated' = <<>>
  /\ arrived' = Undefined

\* <ActionIcon onClick={() => itemQuery.refetch()}>
ClickRefresh ==
  /\ fetchNo < MaxFetches
  /\ StartFetch
  /\ formOpen' = FormAfter(status', fetchStatus', data')
  /\ NoClickNoResponse
  /\ UNCHANGED <<hasApi, historyVars>>

\* <Button onClick={countStockForm.open}>: the button is part of the table
\* branch.
CountStockOpenAnywhere ==
  /\ ShowItems
  /\ ~formOpen
  /\ formOpen' = TRUE
  /\ NoClickNoResponse
  /\ UNCHANGED <<hasApi, queryVars, historyVars>>
CountStockOpen ==
  /\ ShowTable
  /\ ~formOpen
  /\ formOpen' = TRUE
  /\ NoClickNoResponse
  /\ UNCHANGED <<hasApi, queryVars, historyVars>>

\* The user dismisses the form without counting.
CountStockCancel ==
  /\ ModalVisible
  /\ formOpen' = FALSE
  /\ NoClickNoResponse
  /\ UNCHANGED <<hasApi, queryVars, historyVars>>

\* The count action completes: the host closes the form and calls
\* refresh: () => queryClient.invalidateQueries({queryKey: ['next-item']}).
CountCompleteNoInvalidate ==
  /\ ModalVisible
  /\ fetchNo < MaxFetches
  /\ formOpen' = FALSE
  /\ invalidatedAt' = fetchNo + 1
  /\ NoClickNoResponse
  /\ UNCHANGED <<hasApi, queryVars, resultOf, lastOutcome, lastAccepted>>
CountComplete ==
  /\ ModalVisible
  /\ fetchNo < MaxFetches
  /\ StartFetch
  /\ formOpen' = FALSE
  /\ invalidatedAt' = fetchNo'
  /\ NoClickNoResponse
  /\ UNCHANGED <<hasApi, resultOf, lastOutcome, lastAccepted>>

\* A run of the query function resolves with a body.
Resolve(r, body) ==
  /\ r \in inflight
  /\ "ok" \in Outcomes(r)
  /\ inflight' = inflight \ {r}
  /\ arrived' = body
  /\ clicked' = NoClick
  /\ navigated' = <<>>
  /\ IF r.awaited
     THEN /\ status' = "success"
          /\ fetchStatus' = "idle"
          /\ data' = body
          /\ failureCount' = 0
          /\ resultOf' = r.fetch
          /\ lastOutcome' = "success"
          /\ lastAccepted' = body
     ELSE UNCHANGED <<status, fetchStatus, data, failureCount,
                      resultOf, lastOutcome, lastAccepted>>
  /\ formOpen' = FormAfter(status', fetchStatus', data')
  /\ UNCHANGED <<hasApi, fetchNo, invalidatedAt>>

\* A run of the query function fails: the GET is rejected, response.data
\* is undefined (the library takes undefined data as a failure), or
\* context.api is missing and reading response.data throws.
Fail(r, how) ==
  /\ r \in inflight
  /\ how \in Outcomes(r) \ {"ok"}
  /\ inflight' = inflight \ {r}
  /\ IF r.awaited
     THEN IF failureCount < DefaultRetry
          THEN /\ failureCount' = failureCount + 1
               /\ UNCHANGED <<status, fetchStatus, resultOf, lastOutcome>>
          ELSE /\ failureCount' = failureCount + 1
               /\ status' = "error"
               /\ fetchStatus' = "idle"
               /\ resultOf' = r.fetch
               /\ lastOutcome' = "failure"
     ELSE UNCHANGED <<status, fetchStatus, failureCount, resultOf, lastOutcome>>
  /\ formOpen' = FormAfter(status', fetchStatus', data)
  /\ NoClickNoResponse
  /\ UNCHANGED <<hasApi, data, fetchNo, lastAccepted, invalidatedAt>>

\* The retry delay of the current fetch has passed: the query function runs
\* again.
Retry ==
  /\ fetchStatus = "fetching"
  /\ AwaitedRuns = {}
  /\ inflight' = inflight \cup {NewRun(fetchNo)}
  /\ NoClickNoResponse
  /\ UNCHANGED <<hasApi, status, fetchStatus, data, failureCount, fetchNo,
                 formOpen, historyVars>>

\* <ActionIcon onClick={navigateToItem}> of row i:
\* if (item?.pk) context.navigate(getDetailUrl(ModelType.stockitem, item.pk))
ViewItemAlwaysNavigates(i) ==
  /\ ShowTable
  /\ i \in 1 .. Len(Rows)
  /\ clicked' = Rows[i]
  /\ navigated' = <<DetailUrl(Rows[i])>>
  /\ arrived' = Undefined
  /\ UNCHANGED <<hasApi, queryVars, formOpen, historyVars>>
ViewItem(i) ==
  /\ ShowTable
  /\ i \in 1 .. Len(Rows)
  /\ clicked' = Rows[i]
  /\ navigated' = IF Truthy(Rows[i]) THEN <<DetailUrl(Rows[i])>> ELSE <<>>
  /\ arrived' = Undefined
  /\ UNCHANGED <<hasApi, queryVars, formOpen, historyVars>>

Settle == \E r \in inflight :
            \/ \E body \in Bodies : Resolve(r, body)
            \/ \E how \in {"reject", "nodata", "throw"} : Fail(r, how)

SettleAwaited == \E r \in AwaitedRuns :
                   \/ \E body \in Bodies : Resolve(r, body)
                   \/ \E how \in {"reject", "nodata", "throw"} : Fail(r, how)

View == \E i \in 1 .. MaxItems : ViewItem(i)

Next ==
  \/ ClickRefresh
  \/ CountStockOpen
  \/ CountStockCancel
  \/ CountComplete
  \/ Settle
  \/ Retry
  \/ View

Spec == Init /\ [][Next]_vars

\* Every run of the query function the query waits for settles, and every
\* retry delay passes.
FairSpec == Spec /\ WF_vars(SettleAwaited) /\ WF_vars(Retry)

(* ---------------------------------------------------------------- claims *)

\* The views rendered below the title.
Views ==
  {v \in {"loader", "error", "empty", "table"} :
     \/ v = "loader" /\ ShowLoader
     \/ v = "error" /\ ShowErrorAlert
     \/ v = "empty" /\ ShowEmptyAlert
     \/ v = "table" /\ ShowTable}

\* C1 as stated: in every reachable state exactly one of the four views
\* (loader, error alert, success-empty alert, item table) is rendered.
C1_ExactlyOneView == Cardinality(Views) = 1

\* C1 as amended: at least one view is always rendered; the only states with
\* more than one are those of a refetch after a successful fetch, where the
\* loader is rendered together with the success view of the cached data (the
\* success-empty alert or the table); the error alert is never rendered with
\* another view, and the table never with the success-empty alert.
C1_OneViewOrLoaderOverSuccess ==
  \/ Cardinality(Views) = 1
  \/ /\ isSuccess /\ isFetching
     /\ Views \in {{"loader", "empty"}, {"loader", "table"}}

\* C1 witness: a refetch after a successful fetch, loader above the table.
C1_Witness == ShowLoader /\ ShowTable /\ AwaitedGets # {}

C3_NoAutomaticRetry == AwaitedGets # {} => failureCount = 0

\* C4: a completed count action invalidates the query and starts a new GET,
\* and the widget eventually shows the outcome of a fetch that began after
\* the completion.
C4_CountCompletionRefetches ==
  /\ [][invalidatedAt' # invalidatedAt
          => \E r \in inflight' \ inflight :
               r.awaited /\ r.get /\ r.fetch = invalidatedAt']_vars
  /\ [][invalidatedAt' >= invalidatedAt]_vars
  /\ (invalidatedAt > resultOf)
       ~> (fetchStatus = "idle" /\ resultOf >= invalidatedAt)

\* C4 witness: a count action has completed and the outcome of the fetch it
\* started is shown.
C4_Witness ==
  invalidatedAt > 0 /\ resultOf = invalidatedAt /\ fetchStatus = "idle"

\* C5 as stated: the rows of the table are the items of the most recent
\* successful response, in the response's order.  The rows change only when a
\* response is taken, so it is enough to look at the table right after a
\* successful response has arrived.
C5_RowsAreLastResponse ==
  (ShowTable /\ arrived # Undefined) => Rows = ItemsOf(arrived)

\* C5 as amended: the rows of the table are the items of the most recent
\* successful response to a request that was not superseded by a later
\* refetch, one row per item, in the response's order.
C5_RowsAreLastAcceptedResponse == ShowTable => Rows = ItemsOf(lastAccepted)

\* C5 witness: a response with two items has arrived and is displayed.
C5_Witness == ShowTable /\ Len(Rows) = 2 /\ arrived = lastAccepted

\* C6: after a successful fetch the success-empty alert is rendered iff the
\* response's items array is empty or absent and the table iff it is
\* non-empty; neither is rendered when the last fetch did not succeed.
C6_ViewMatchesFetchStatus ==
  /\ lastOutcome = "success" =>
       /\ ShowEmptyAlert <=> Len(ItemsOf(lastAccepted)) = 0
       /\ ShowTable <=> Len(ItemsOf(lastAccepted)) > 0
  /\ lastOutcome # "success" => ~ShowEmptyAlert /\ ~ShowTable

\* C6 witness: a successful response without an items array.
C6_Witness == lastOutcome = "success" /\ lastAccepted = NoItems /\ ShowEmptyAlert

\* C7 as stated (first half): at most one GET is in flight at a time.
C7_AtMostOneGet == Cardinality(Gets) <= 1

\* C7 as amended: more than one GET can be on the network, but the query
\* waits for at most one of them, every other one belongs to an older fetch,
\* and the outcome the query holds is never replaced by that of an older
\* fetch.
C7_OneAwaitedAndNoOlderResult ==
  /\ [](Cardinality(AwaitedRuns) <= 1)
  /\ [](\A r \in inflight : ~r.awaited => r.fetch < fetchNo)
  /\ [][resultOf' >= resultOf]_vars
  /\ [][\A r \in inflight \ inflight' :
          ~r.awaited => UNCHANGED <<status, fetchStatus, data>>]_vars

\* C7 witness: the GET of a superseded fetch is still on the network after
\* the outcome of a later fetch has been taken.
C7_Witness == \E r \in Gets : r.fetch < resultOf

\* C8: the count-stock form is opened only from the Count Stock button of a
\* rendered, non-empty table, with exactly the items of the rows rendered.
C8_FormOpensFromTable ==
  /\ [][(~formOpen /\ formOpen')
          => (ShowTable /\ FormItems = Rows /\ Len(FormItems) > 0)]_vars
  /\ [](ModalVisible => (FormItems = Rows /\ Len(FormItems) > 0))

\* C8 witness: the form is open over a table.
C8_Witness == formOpen /\ ShowTable /\ FormItems = Rows

\* C9: a View Item click calls navigate exactly once, with the detail URL of
\* the row's pk, when the pk is truthy, and does nothing when it is missing,
\* null or 0; it never touches the query, the rows or the form.
C9_ViewItemNavigates ==
  /\ [](clicked # NoClick =>
          navigated = IF clicked \in 1 .. MaxPk
                      THEN <<(<<"stockitem", clicked>>)>> ELSE <<>>)
  /\ [][clicked' # NoClick
          => /\ UNCHANGED <<queryVars, formOpen, historyVars>>
             /\ Rows' = Rows
             /\ \E i \in 1 .. Len(Rows) : Rows[i] = clicked']_vars

\* C9 witness: a row without a truthy pk was clicked and nothing was
\* navigated to.
C9_Witness == clicked = 0 /\ navigated = <<>>

\* C10 as stated (first half): whenever a GET is in flight the loader is
\* rendered and the error alert is not.
C10_GetInFlightShowsLoader == Gets # {} => (ShowLoader /\ ~ShowErrorAlert)

\* C10 as amended: whenever a GET the query waits for (one not superseded
\* by a later refetch) is in flight, the loader is rendered and the error
\* alert is not; and if every such request settles, every retry delay passes
\* and refetches stop being triggered, the widget leaves the loading state
\* and shows the error alert, the success-empty alert or the table.
C10_AwaitedGetShowsLoader ==
  /\ [](AwaitedGets # {} => (ShowLoader /\ ~ShowErrorAlert))
  /\ ShowLoader ~> (~ShowLoader /\ Cardinality(Views) = 1)

\* C10 witness: a refetch after a failed fetch; the loader hides the alert.
C10_Witness == AwaitedGets # {} /\ isError /\ ShowLoader

====
